---- MODULE Spec2Model ----
(***************************************************************************)
(* The Nordic Secure-DFU client of nrfdfu-ble: the wire framing            *)
(* (Request::to_bytes, Response::try_from), the request/retry primitive    *)
(* (request), the CRC (crc32) and the session (dfu_run) of                 *)
(* src/src/protocol.rs, run against a device behind the DfuTransport       *)
(* contract (write_data, request_ctrl, mtu).  One action is one transport  *)
(* operation of dfu_run together with the code that handles its outcome.   *)
(***************************************************************************)
EXTENDS Integers, Sequences, FiniteSets, TLC

(***************************** bounds **************************************)
MaxFw == 3
MaxMtu == 2
MaxChunk == 3
\* the longest buffer crc32 is folded over on its own
MaxCrcLen == 3
\* the most notifications of other characteristics during one request
MaxOther == 2
\* consecutive requests of one session that are followed
MaxReq == 2

(************************** program constants ******************************)
HEADER == 96
RETRIES_Four == 3 + 1
RETRIES == 3

Object_Command == 1
Object_Data == 2

OpCode_ObjectCreate == 1
OpCode_ReceiptNotifSet == 2
OpCode_CrcGet == 3
OpCode_ObjectExecute == 4
OpCode_ObjectSelect == 6

ResponseCode_Success == 1

\* enum OpCode, the values OpCode::try_from accepts
OpCode == {0, 1, 2, 3, 4, 6, 7, 8, 9, 10, 11, 12}

\* enum ResponseCode, the values ResponseCode::try_from accepts
ResponseCode == {0, 1, 2, 3, 4, 5, 7, 8, 10, 11}

(******************************** u32 **************************************)
(* A u32 is kept as its two 16-bit halves, [hi, lo], value hi * 2^16 + lo. *)
(* An operator that reads an argument several times binds it first         *)
(* (x \in { a }), so that the argument is evaluated once.                   *)
Min(a, b) == IF a < b THEN a ELSE b

W16 == 256 * 256

\* usize -> u32 (try_into) of a length below 2^31
U32Of(n) == [hi |-> n \div W16, lo |-> n % W16]

Zero32 == U32Of(0)

RECURSIVE XorBits(_, _, _)
XorBits(a, b, n) ==
    IF n = 0 THEN 0
    ELSE ((a + b) % 2) + 2 * XorBits(a \div 2, b \div 2, n - 1)

\* bitwise exclusive or of two u32
Xor32(a, b) ==
    CHOOSE r \in { [hi |-> XorBits(x.hi, y.hi, 16), lo |-> XorBits(x.lo, y.lo, 16)] :
                      x \in { a }, y \in { b } } : TRUE

\* bitwise complement of a u32
Not32(a) ==
    CHOOSE r \in { [hi |-> (W16 - 1) - x.hi, lo |-> (W16 - 1) - x.lo] : x \in { a } } : TRUE

\* logical shift right by one bit of a u32
Shr1(a) == [hi |-> a.hi \div 2, lo |-> (a.lo \div 2) + (a.hi % 2) * (W16 \div 2)]

\* u32::to_le_bytes
to_le_bytes(a) == << a.lo % 256, a.lo \div 256, a.hi % 256, a.hi \div 256 >>

\* u32::from_le_bytes of the four bytes b[from+1 .. from+4] (Rust b[from..from+4])
from_le_bytes(b, from) ==
    [hi |-> b[from + 3] + 256 * b[from + 4], lo |-> b[from + 1] + 256 * b[from + 2]]

(******************************** crc32 ************************************)
\* the reflected IEEE 802.3 polynomial 0xEDB88320
POLY == [hi |-> 60856, lo |-> 33568]

\* one bit of the reflected CRC: shift right, xor the polynomial on a carry
CrcBit(c) ==
    CHOOSE r \in { IF x.lo % 2 = 1 THEN Xor32(Shr1(x), POLY) ELSE Shr1(x) : x \in { c } } :
        TRUE

\* the 256-entry table of the byte-wise algorithm: eight bit steps of each byte
CrcTable ==
    [b \in 0..255 |->
        CrcBit(CrcBit(CrcBit(CrcBit(CrcBit(CrcBit(CrcBit(CrcBit(U32Of(b)))))))))]

\* logical shift right by eight bits of a u32
Shr8(a) == [hi |-> a.hi \div 256, lo |-> (a.lo \div 256) + (a.hi % 256) * 256]

\* one byte: table[(state ^ byte) & 0xFF] ^ (state >> 8)
CrcByte(c, b) == Xor32(CrcTable[XorBits(c.lo % 256, b, 8)], Shr8(c))

\* the state after the first n bytes of buf
RECURSIVE CrcUpdate(_, _, _)
CrcUpdate(c, buf, n) ==
    IF n = 0 THEN c
    ELSE CHOOSE r \in { CrcByte(x, buf[n]) : x \in { CrcUpdate(c, buf, n - 1) } } : TRUE

crc32_IgnoresInit(buf, init) ==
    CHOOSE r \in { Not32(CrcUpdate(Not32(Zero32), b, Len(b))) : b \in { buf } } : TRUE
\* Hasher::new_with_initial(init); update(buf); finalize()
crc32(buf, init) ==
    CHOOSE r \in { Not32(CrcUpdate(Not32(init), b, Len(b))) : b \in { buf } } : TRUE

(******************************* framing ***********************************)
\* enum Request; n is a u32
Request_Create(obj, len) == [op |-> "Create", obj |-> obj, n |-> len]
Request_SetPrn(v) == [op |-> "SetPrn", obj |-> 0, n |-> v]
Request_GetCrc == [op |-> "GetCrc", obj |-> 0, n |-> Zero32]
Request_Execute == [op |-> "Execute", obj |-> 0, n |-> Zero32]
Request_Select(obj) == [op |-> "Select", obj |-> obj, n |-> Zero32]

\* Request::to_bytes
to_bytes(req) ==
    CASE req.op = "Create" -> << OpCode_ObjectCreate, req.obj >> \o to_le_bytes(req.n)
      [] req.op = "SetPrn" -> << OpCode_ReceiptNotifSet >> \o to_le_bytes(req.n)
      [] req.op = "GetCrc" -> << OpCode_CrcGet >>
      [] req.op = "Execute" -> << OpCode_ObjectExecute >>
      [] req.op = "Select" -> << OpCode_ObjectSelect, req.obj >>

\* enum ResponseData
NoData == [kind |-> "Empty", offset |-> Zero32, checksum |-> Zero32, max_size |-> Zero32]

Parsed(st, what, request, result, data) ==
    [st |-> st, what |-> what, request |-> request, result |-> result, data |-> data]

\* Response::try_from: st is "Ok" (a Response), "Err" (an error value) or
\* "Panic" (an index or a slice range past the end of bytes)
try_from(bytes) ==
    IF Len(bytes) < 1 THEN Parsed("Panic", "index out of bounds", 0, 0, NoData)
    ELSE IF bytes[1] # HEADER
    THEN Parsed("Err", "Response packets must start with 0x60", 0, 0, NoData)
    ELSE IF Len(bytes) < 2 THEN Parsed("Panic", "index out of bounds", 0, 0, NoData)
    ELSE IF bytes[2] \notin OpCode
    THEN Parsed("Err", "TryFromPrimitiveError OpCode", 0, 0, NoData)
    ELSE IF Len(bytes) < 3 THEN Parsed("Panic", "index out of bounds", bytes[2], 0, NoData)
    ELSE IF bytes[3] \notin ResponseCode
    THEN Parsed("Err", "TryFromPrimitiveError ResponseCode", bytes[2], 0, NoData)
    ELSE IF bytes[3] = ResponseCode_Success /\ bytes[2] = OpCode_CrcGet
    THEN IF Len(bytes) < 11
         THEN Parsed("Panic", "range end index out of range", bytes[2], bytes[3], NoData)
         ELSE Parsed("Ok", "", bytes[2], bytes[3],
                     [kind |-> "Crc", offset |-> from_le_bytes(bytes, 3),
                      checksum |-> from_le_bytes(bytes, 7), max_size |-> Zero32])
    ELSE IF bytes[3] = ResponseCode_Success /\ bytes[2] = OpCode_ObjectSelect
    THEN IF Len(bytes) < 15
         THEN Parsed("Panic", "range end index out of range", bytes[2], bytes[3], NoData)
         ELSE Parsed("Ok", "", bytes[2], bytes[3],
                     [kind |-> "Select", max_size |-> from_le_bytes(bytes, 3),
                      offset |-> from_le_bytes(bytes, 7),
                      checksum |-> from_le_bytes(bytes, 11)])
    ELSE Parsed("Ok", "", bytes[2], bytes[3], NoData)

failed_Never(res) == FALSE
\* Response::failed
failed(res) == res.result # ResponseCode_Success

(******************************** state ************************************)
VARIABLES
    init_pkt,      \* dfu_run's init_pkt
    fw_pkt,        \* dfu_run's fw_pkt
    mtu,           \* what transport.mtu() returns
    device,        \* "truthful": every reply is the truthful one; "faulty": any
    dev_max_size,  \* the Data object size the device announces
    dev,           \* the device: current object kind and the bytes it received
    pc,            \* the transport operation dfu_run issues next, or "Done"
    retry,         \* request's loop variable _retry
    max_size,      \* max_size of the Select response
    crc,           \* dfu_run's crc
    chunk_off,     \* offset in fw_pkt of the current chunk
    shard_off,     \* offset in the current chunk of the current shard
    result,        \* what dfu_run ended with
    emitted,       \* the step just taken executed the println of line 221
    last,          \* history: the last transport operation, its outcome, and for
                   \*   a firmware GetCrc reply whether its checksum equals
                   \*   crc32(shard, crc) and its offset the bytes written so far
    lied,          \* history: some outcome other than a timeout was not truthful
    maxconsec,     \* history: the most request_ctrl calls in a row that timed out
    after_end,     \* history: a transport operation was issued after dfu_run ended
    skipped,       \* history: a firmware write or an Execute was issued right after
                   \*   a GetCrc reply that was not compared and found equal
    consec,        \* history: request_ctrl calls in a row that timed out, up to now
    idx,           \* history: operations of the announced sequence issued so far
    conform,       \* history: every operation was the next of the announced sequence
    init_written, init_verified, init_executed, init_mismatch, execs,  \* history
    exec_ok,       \* history: Execute requests answered with the result code Success
    cbuf,          \* crc32 on its own: a buffer
    coff,          \*   the length of its prefix folded so far
    cacc,          \*   crc32 folded over the pieces of that prefix, from 0
    cfolds,        \*   the number of pieces
    has_bttnlss,   \* the peripheral found exposes the Buttonless DFU characteristic
    same_addr,     \* the bootloader advertises under the application's address
    bpc,           \* the position of DfuTransportBtleplug::new, then of request
    peripheral,    \* new's peripheral: the name it was discovered under
    mode,          \* what the device runs: "app" or "boot"
    chars,         \* peripheral.characteristics(), as of the last discover_services
    open,          \* request's notifications stream exists
    notifications, \* the notifications queued in it
    devst,         \* the device and the Control-Point write: "idle", "got", "replied"
    others,        \* notifications of other characteristics sent so far
    bret,          \* what new, then request, returned
    bobs,          \* history of the transport
    r_first,       \* retried requests: the session's request the run starts at
    r_done,        \* the requests that returned Ok so far
    r_retry,       \* request's _retry
    r_pc,          \* where request_ctrl stands: "notifications", "write", "next"
    r_open,        \* request_ctrl's notifications stream exists
    r_stream,      \* the notifications queued in it
    r_owed,        \* the writes the device has not answered yet
    r_got,         \* history: the response each request returned with
    r_unacked      \* history: a Control-Point write timed out

inputs == << init_pkt, fw_pkt, mtu, device, dev_max_size >>
prog == << pc, retry, max_size, crc, chunk_off, shard_off, result, emitted >>
hist == << last, lied, maxconsec, after_end, skipped, consec, idx, conform,
           init_written, init_verified, init_executed, init_mismatch, execs, exec_ok >>
crcs == << cbuf, coff, cacc, cfolds >>
dfu == << inputs, dev, prog, hist >>
ble == << has_bttnlss, same_addr, bpc, peripheral, mode, chars, open, notifications,
         devst,
         others, bret, bobs >>
rty == << r_first, r_done, r_retry, r_pc, r_open, r_stream, r_owed, r_got,
         r_unacked >>
vars == << dfu, crcs, ble, rty >>

(******************************* inputs ************************************)
\* the byte values of the buffers crc32 is folded over on its own
CrcBytes == {0, 1, 255}

\* the first n bytes of an init packet AA BB CC ...
InitImage(n) == [i \in 1..n |-> (170 + 17 * (i - 1)) % 256]

\* the first n bytes of a firmware image 00 01 02 ...
FwImage(n) == [i \in 1..n |-> (i - 1) % 256]

(******************************* device ************************************)
(* The device behind the transport: it keeps the bytes of the Command      *)
(* object and of the firmware stream, and answers GetCRC and Select with   *)
(* their length and CRC.                                                   *)
DevInit == [cur |-> 0, cmd |-> << >>, data |-> << >>, lastw |-> << >>]

\* the device after a Control-Point request
DevCtrl(d, bytes) ==
    IF bytes[1] = 1 /\ bytes[2] = 1 THEN [d EXCEPT !.cur = 1, !.cmd = << >>]
    ELSE IF bytes[1] = 1 THEN [d EXCEPT !.cur = bytes[2]]
    ELSE d

\* the device after a write to the Data characteristic
DevData(d, bytes) ==
    IF d.cur = 1 THEN [d EXCEPT !.cmd = d.cmd \o bytes, !.lastw = bytes]
    ELSE IF d.cur = 2 THEN [d EXCEPT !.data = d.data \o bytes, !.lastw = bytes]
    ELSE d

DevBuf(d) == IF d.cur = 2 THEN d.data ELSE d.cmd

CrcReply(offset, checksum) == << 96, 3, 1 >> \o to_le_bytes(offset) \o to_le_bytes(checksum)

SelectReply(max, offset, checksum) ==
    << 96, 6, 1 >> \o to_le_bytes(max) \o to_le_bytes(offset) \o to_le_bytes(checksum)

\* the truthful reply of device d (the request already applied) to a request
Truthful(d, bytes) ==
    IF bytes[1] = 3
    THEN CrcReply(U32Of(Len(DevBuf(d))), crc32(DevBuf(d), Zero32))
    ELSE IF bytes[1] = 6
    THEN SelectReply(U32Of(dev_max_size), U32Of(Len(d.data)), crc32(d.data, Zero32))
    ELSE << 96, bytes[1], 1 >>

\* result codes other than Success a device may answer with
FailCodes == {0, 8, 11}

\* replies of a device that is not truthful
FaultyReplies(d, bytes) ==
    LET op == bytes[1]
        t == Truthful(d, bytes)
    IN  { << 96, op, c >> : c \in FailCodes }
        \cup { << >>, << 96 >>, << 96, op >>, << 97, op, 1 >>, << 96, 5, 1 >>,
               << 96, op, 6 >>, << 96, op, 1 >>,
               << 96, (IF op = 4 THEN 2 ELSE 4), 1 >> }
        \cup (IF op = 3
              THEN { CrcReply(from_le_bytes(t, 3), Xor32(from_le_bytes(t, 7), U32Of(1))),
                     CrcReply(U32Of(Len(DevBuf(d)) + 1), from_le_bytes(t, 7)),
                     \* the CRC of the last write alone
                     CrcReply(from_le_bytes(t, 3), crc32(d.lastw, Zero32)) }
              ELSE { })
        \cup (IF op = 6
              THEN { SelectReply(U32Of(dev_max_size), U32Of(16), Zero32),
                     SelectReply(U32Of(dev_max_size), Zero32, [hi |-> 57005, lo |-> 48879]),
                     SelectReply(U32Of(dev_max_size), U32Of(16), [hi |-> 57005, lo |-> 48879]) }
              ELSE { })

Outcome(st, bytes, truthful) == [st |-> st, bytes |-> bytes, truthful |-> truthful]

\* what transport.request_ctrl(bytes) may return: Ok(reply), Err(Elapsed), Err(other)
CtrlOutcomes(bytes) ==
    LET d == DevCtrl(dev, bytes)
        t == Truthful(d, bytes)
    IN  { Outcome("ok", t, TRUE) }
        \cup (IF device = "faulty"
              THEN { Outcome("ok", b, FALSE) : b \in FaultyReplies(d, bytes) \ { t } }
                   \cup { Outcome("error", << >>, FALSE) }
                   \cup { Outcome("timeout", << >>, FALSE) }
              ELSE { })

\* what transport.write_data(bytes) may return: Ok(()), Err(Elapsed), Err(other)
DataOutcomes(bytes) ==
    { Outcome("ok", << >>, TRUE) }
    \cup (IF device = "faulty"
          THEN { Outcome("error", << >>, FALSE), Outcome("timeout", << >>, FALSE) }
          ELSE { })

(************************ the announced sequence ***************************)
(* The sequence of transport operations the protocol description announces *)
(* for a session: SetPRN(0), Create(Command, |init|), the init packet,     *)
(* GetCRC, Execute, Select(Data), then per chunk Create(Data, |chunk|),    *)
(* per shard a data write and a GetCRC, and Execute.  Requests are encoded *)
(* as the protocol's request table gives them.                             *)
Le4(n) == << n % 256, (n \div 256) % 256, (n \div 65536) % 256, n \div 16777216 >>
WireCreate(kind, len) == << 1, kind >> \o Le4(len)
WireSetPrn(v) == << 2 >> \o Le4(v)
WireGetCrc == << 3 >>
WireExecute == << 4 >>
WireSelect(kind) == << 6, kind >>

Ctrl(bytes) == [op |-> "ctrl", bytes |-> bytes]
Data(bytes) == [op |-> "data", bytes |-> bytes]

\* the shards of the chunk fw[from+1 .. to], from offset off of the chunk on
RECURSIVE AnnouncedShards(_, _, _)
AnnouncedShards(from, to, off) ==
    IF from + off >= to THEN << >>
    ELSE << Data(SubSeq(fw_pkt, from + off + 1, Min(from + off + mtu, to))),
            Ctrl(WireGetCrc) >>
         \o AnnouncedShards(from, to, off + mtu)

\* the chunks of the firmware from offset from on
RECURSIVE AnnouncedChunks(_)
AnnouncedChunks(from) ==
    IF from >= Len(fw_pkt) THEN << >>
    ELSE << Ctrl(WireCreate(2, Min(dev_max_size, Len(fw_pkt) - from))) >>
         \o AnnouncedShards(from, Min(from + dev_max_size, Len(fw_pkt)), 0)
         \o << Ctrl(WireExecute) >>
         \o AnnouncedChunks(from + dev_max_size)

AnnouncedInit ==
    << Ctrl(WireSetPrn(0)), Ctrl(WireCreate(1, Len(init_pkt))), Data(init_pkt),
       Ctrl(WireGetCrc), Ctrl(WireExecute), Ctrl(WireSelect(2)) >>

Announced ==
    AnnouncedInit
    \o (IF dev_max_size > 0 THEN AnnouncedChunks(0) ELSE << >>)

(****************************** results ************************************)
Res(tag, what, code) == [tag |-> tag, what |-> what, code |-> code]
NoResult == Res("None", "", -1)
Ok == Res("Ok", "", -1)
Err(what) == Res("Err", what, -1)
\* Err(format!("{:?}", res)): the Debug text of the response, its result code in it
ErrResponse(res) == Res("Err", "Response", res.result)
\* the Err(e) of a transport operation, returned as it is
TransportErr(o) == Err(IF o.st = "timeout" THEN "Elapsed" ELSE "transport")
\* a panic: unimplemented!, unreachable!, an index out of bounds, chunks(0)
Panic(what) == Res("Panic", what, -1)

(******************************* chunks ***********************************)
ChunkAt_Uncut(buf, size, off) == SubSeq(buf, off + 1, Len(buf))
\* slice.chunks(size): the chunk that starts at offset off
ChunkAt(buf, size, off) == SubSeq(buf, off + 1, Min(off + size, Len(buf)))

HasNext_DropsLast(buf, size, off) == off + size + 1 < Len(buf)
\* slice.chunks(size): whether a chunk follows the one at offset off
HasNext(buf, size, off) == off + size < Len(buf)

\* the chunk and the shard dfu_run's loops are at
Chunk == ChunkAt(fw_pkt, max_size, chunk_off)
Shard == ChunkAt(Chunk, mtu, shard_off)

(****************************** history ************************************)
IsCrcSuccess(o) ==
    o.st = "ok" /\ Len(o.bytes) = 11 /\ SubSeq(o.bytes, 1, 3) = << 96, 3, 1 >>

\* a response with the header byte and the result code Success
IsSuccess(o) == o.st = "ok" /\ Len(o.bytes) >= 3 /\ o.bytes[1] = 96 /\ o.bytes[3] = 1

InitCrcMatches(o) ==
    /\ IsCrcSuccess(o)
    /\ SubSeq(o.bytes, 4, 7) = Le4(Len(init_pkt))
    /\ from_le_bytes(o.bytes, 7) = crc32(init_pkt, Zero32)

\* the history after transport operation kind(bytes) returned outcome o
Observe(kind, bytes, o) ==
    LET retrying == last.op = "ctrl" /\ last.st = "timeout"
        stream == kind = "ctrl" /\ bytes = WireGetCrc /\ init_executed /\ IsCrcSuccess(o)
    IN  /\ last' = [op |-> kind, bytes |-> bytes, st |-> o.st, resp |-> o.bytes,
                    stream |-> stream,
                    crc_ok |-> stream /\ from_le_bytes(o.bytes, 7) = crc32(Shard, crc),
                    off_ok |-> stream /\ SubSeq(o.bytes, 4, 7)
                                          = Le4(chunk_off + shard_off + Len(Shard))]
        /\ lied' = (lied \/ (~o.truthful /\ (o.st # "timeout" \/ kind = "data")))
        /\ maxconsec' = IF kind = "ctrl" /\ o.st = "timeout" /\ consec + 1 > maxconsec
                         THEN consec + 1 ELSE maxconsec
        /\ after_end' = (after_end \/ result # NoResult)
        /\ skipped' = (skipped \/ (/\ init_executed
                                    /\ (kind = "data" \/ bytes = WireExecute)
                                    /\ last.op = "ctrl" /\ last.bytes = WireGetCrc
                                    /\ last.st = "ok"
                                    /\ ~(last.stream /\ last.crc_ok)))
        /\ consec' = IF kind = "ctrl" /\ o.st = "timeout" THEN consec + 1 ELSE 0
        /\ idx' = IF retrying THEN idx ELSE idx + 1
        /\ conform' = (conform /\ IF retrying
                                  THEN kind = "ctrl" /\ bytes = last.bytes
                                  ELSE /\ idx < Len(Announced)
                                       /\ Announced[idx + 1] = [op |-> kind, bytes |-> bytes])
        /\ init_written' = (init_written \/ (kind = "data" /\ bytes = init_pkt
                                              /\ o.st = "ok" /\ execs = 0))
        /\ init_verified' = (init_verified \/ (kind = "ctrl" /\ bytes = WireGetCrc
                                                /\ init_written /\ InitCrcMatches(o)))
        /\ init_executed' = (init_executed \/ (kind = "ctrl" /\ bytes = WireExecute
                                                /\ init_verified /\ IsSuccess(o)))
        /\ init_mismatch' = (init_mismatch \/ (kind = "ctrl" /\ bytes = WireGetCrc
                                                /\ execs = 0 /\ IsCrcSuccess(o)
                                                /\ ~InitCrcMatches(o)))
        /\ execs' = IF kind = "ctrl" /\ bytes = WireExecute THEN execs + 1 ELSE execs
        /\ exec_ok' = IF kind = "ctrl" /\ bytes = WireExecute /\ IsSuccess(o)
                          /\ o.bytes[2] \in OpCode
                       THEN exec_ok + 1 ELSE exec_ok

(****************************** request ************************************)
ReqOut(k, res, r) == [k |-> k, res |-> res, result |-> r]
NoParsed == Parsed("Ok", "", 0, 0, NoData)

\* one iteration of request's loop, transport.request_ctrl having returned o:
\* "retry" (continue), "fail" (return Err or panic) or "ok" (return Ok(res))
request(o) ==
    IF o.st = "timeout"
    THEN IF retry + 1 < RETRIES
         THEN ReqOut("retry", NoParsed, NoResult)
         ELSE ReqOut("fail", NoParsed, Err("No response after multiple tries"))
    ELSE IF o.st = "error"
    THEN ReqOut("fail", NoParsed, TransportErr(o))
    ELSE LET res == try_from(o.bytes)
         IN  IF res.st = "Panic" THEN ReqOut("fail", NoParsed, Panic(res.what))
             ELSE IF res.st = "Err" THEN ReqOut("fail", NoParsed, Err(res.what))
             ELSE IF failed(res) THEN ReqOut("fail", NoParsed, ErrResponse(res))
             ELSE ReqOut("ok", res, NoResult)

(****************************** dfu_run ************************************)
P == [pc |-> pc, retry |-> retry, max_size |-> max_size, crc |-> crc,
      chunk_off |-> chunk_off, shard_off |-> shard_off, result |-> result,
      emitted |-> FALSE]

Become(s) ==
    /\ pc' = s.pc
    /\ retry' = s.retry
    /\ max_size' = s.max_size
    /\ crc' = s.crc
    /\ chunk_off' = s.chunk_off
    /\ shard_off' = s.shard_off
    /\ result' = s.result
    /\ emitted' = s.emitted

Returned(r) == [P EXCEPT !.pc = "Done", !.retry = 0, !.result = r]
Goto(l) == [P EXCEPT !.pc = l, !.retry = 0]

AfterRequest_TimeoutIsSuccess(r, cont) ==
    IF r.k = "fail" THEN Returned(r.result) ELSE cont
\* request(..).await? : retry, return the error, or go on with the response
AfterRequest(r, cont) ==
    IF r.k = "retry" THEN [P EXCEPT !.retry = retry + 1]
    ELSE IF r.k = "fail" THEN Returned(r.result)
    ELSE cont

AfterWrite_Ignored(o, cont) == cont
\* transport.write_data(..).await? : return the error, or go on
AfterWrite(o, cont) == IF o.st = "ok" THEN cont ELSE Returned(TransportErr(o))

\* u32 as usize, of a value below 2^31
AsUsize(a) == a.hi * W16 + a.lo

VerifyInit_NoChecksum(data) ==
    IF data.kind = "Crc"
    THEN IF data.offset # U32Of(Len(init_pkt))
         THEN Returned(Err("Init packet write failed, length mismatch"))
         ELSE Goto("ExecuteCommand")
    ELSE Returned(Err("Got unexpected respnse for Request::GetCrc"))
\* the verification of the init packet's GetCrc response
VerifyInit(data) ==
    IF data.kind = "Crc"
    THEN IF data.offset # U32Of(Len(init_pkt))
         THEN Returned(Err("Init packet write failed, length mismatch"))
         ELSE IF data.checksum # crc32(init_pkt, Zero32)
         THEN Returned(Err("Init packet write failed, CRC mismatch"))
         ELSE Goto("ExecuteCommand")
    ELSE Returned(Err("Got unexpected respnse for Request::GetCrc"))

\* the Select(Data) response: no resumption, crc = 0, the loop over the chunks
StartStream(data) ==
    IF data.kind = "Select"
    THEN IF data.offset # Zero32 \/ data.checksum # Zero32
         THEN Returned(Panic("not implemented: DFU resumption is not supported"))
         ELSE IF AsUsize(data.max_size) = 0
         THEN Returned(Panic("chunk size must be non-zero"))
         ELSE IF Len(fw_pkt) = 0
         THEN [Returned(Ok) EXCEPT !.max_size = AsUsize(data.max_size), !.crc = Zero32]
         ELSE [Goto("CreateData") EXCEPT !.max_size = AsUsize(data.max_size),
                                         !.crc = Zero32, !.chunk_off = 0, !.shard_off = 0]
    ELSE Returned(Panic("unreachable"))

NextShard_CrcReset(c) ==
    IF HasNext(Chunk, mtu, shard_off)
    THEN [Goto("WriteShard") EXCEPT !.crc = Zero32, !.shard_off = shard_off + mtu]
    ELSE [Goto("ExecuteData") EXCEPT !.crc = Zero32]
\* the next shard of the chunk, or the chunk's Execute
NextShard(c) ==
    IF HasNext(Chunk, mtu, shard_off)
    THEN [Goto("WriteShard") EXCEPT !.crc = c, !.shard_off = shard_off + mtu]
    ELSE [Goto("ExecuteData") EXCEPT !.crc = c]

\* println!("Uploaded {}/{} bytes", offset, fw_pkt.len()), then what follows it
Println(s) == [s EXCEPT !.emitted = TRUE]

\* the verification of a shard's GetCrc response
VerifyShard(data) ==
    IF data.kind = "Crc"
    THEN Println(IF data.checksum # crc32(Shard, crc)
                 THEN Returned(Panic("not implemented: invalid CRC recovery is not supported"))
                 ELSE NextShard(data.checksum))
    ELSE NextShard(crc)

\* the next chunk, or return Ok(())
NextChunk ==
    IF HasNext(fw_pkt, max_size, chunk_off)
    THEN [Goto("CreateData") EXCEPT !.chunk_off = chunk_off + max_size, !.shard_off = 0]
    ELSE Returned(Ok)

\* a call of transport.request_ctrl during request(transport, req)
Exchange(req, o, cont) ==
    /\ Observe("ctrl", to_bytes(req), o)
    /\ dev' = DevCtrl(dev, to_bytes(req))
    /\ \E s \in { AfterRequest(request(o), cont) } : Become(s)
    /\ UNCHANGED << inputs, crcs, ble, rty >>

\* a call of transport.write_data
Write(bytes, o, cont) ==
    /\ Observe("data", bytes, o)
    /\ dev' = IF o.st = "ok" THEN DevData(dev, bytes) ELSE dev
    /\ \E s \in { AfterWrite(o, cont) } : Become(s)
    /\ UNCHANGED << inputs, crcs, ble, rty >>

(***************************** BLE transport ******************************)
\* dfu_uuids: the Control Point, Data and Buttonless DFU characteristics
CTRL_PT == "8EC90001"
DATA_PT == "8EC90002"
BTTNLSS == "8EC90003"

\* a ValueNotification
Ntf(uuid, value) == [uuid |-> uuid, value |-> value]

\* the name the caller gave, and the bootloader's advertising name
NAME == "App"
DFU_TARG == "DfuTarg"

NoRet == [tag |-> "None", what |-> "", uuid |-> "", value |-> << >>]
BleOk(ntf) == [tag |-> "Ok", what |-> "", uuid |-> ntf.uuid, value |-> ntf.value]
BleErr(what) == [tag |-> "Err", what |-> what, uuid |-> "", value |-> << >>]
BlePanic(what) == [tag |-> "Panic", what |-> what, uuid |-> "", value |-> << >>]

NoObs == [lost |-> FALSE, early |-> FALSE, bttnlss |-> FALSE, skipped |-> 0]

\* the transport before DfuTransportBtleplug::new is called
BleStart ==
    /\ bpc = "find_peripheral"
    /\ peripheral = ""
    /\ mode = IF has_bttnlss THEN "app" ELSE "boot"
    /\ chars = { }
    /\ open = FALSE
    /\ notifications = << >>
    /\ devst = "idle"
    /\ others = 0
    /\ bret = NoRet
    /\ bobs = NoObs

\* no transport
BleIdle == has_bttnlss = FALSE /\ same_addr = TRUE /\ BleStart

\* the entry of request for the first of the requests followed
RetryStart ==
    /\ r_done = 0 /\ r_retry = 0 /\ r_pc = "notifications"
    /\ r_open = FALSE /\ r_stream = << >> /\ r_owed = << >> /\ r_got = << >>
    /\ r_unacked = FALSE

\* no request being retried
RetryIdle == r_first = 1 /\ RetryStart

\* crc32 not being exercised on its own
CrcIdle == cbuf = << >> /\ coff = 0 /\ cacc = Zero32 /\ cfolds = 0

\* the entry of dfu_run
DfuStart ==
    /\ dev = DevInit
    /\ pc = "SetPrn"
    /\ retry = 0
    /\ max_size = 0
    /\ crc = Zero32
    /\ chunk_off = 0
    /\ shard_off = 0
    /\ result = NoResult
    /\ emitted = FALSE
    /\ skipped = FALSE
    /\ last = [op |-> "none", bytes |-> << >>, st |-> "none", resp |-> << >>,
               stream |-> FALSE, crc_ok |-> FALSE, off_ok |-> FALSE]
    /\ lied = FALSE
    /\ maxconsec = 0
    /\ after_end = FALSE
    /\ consec = 0
    /\ idx = 0
    /\ conform = TRUE
    /\ init_written = FALSE
    /\ init_verified = FALSE
    /\ init_executed = FALSE
    /\ init_mismatch = FALSE
    /\ execs = 0
    /\ exec_ok = 0

\* no session: an empty init packet and firmware, dfu_run not entered
DfuIdle ==
    /\ mtu = 1 /\ init_pkt = << >> /\ fw_pkt = << >>
    /\ device = "truthful" /\ dev_max_size = 1
    /\ DfuStart

Init ==
    /\ mtu \in 1..MaxMtu
    /\ init_pkt \in { InitImage(n) : n \in { 0, 1, mtu + 1 } }
    /\ fw_pkt \in { FwImage(n) : n \in 0..MaxFw }
    /\ device \in { "truthful", "faulty" }
    /\ dev_max_size \in 0..MaxChunk
    /\ DfuStart
    /\ CrcIdle
    /\ RetryIdle
    /\ BleIdle

\* request(transport, &Request::SetPrn(0)).await?
SetPrn ==
    /\ pc = "SetPrn"
    /\ \E o \in CtrlOutcomes(to_bytes(Request_SetPrn(Zero32))) :
           Exchange(Request_SetPrn(Zero32), o, Goto("CreateCommand"))

\* request(transport, &Request::Create(Object::Command, init_pkt.len())).await?
CreateCommand ==
    /\ pc = "CreateCommand"
    /\ LET req == Request_Create(Object_Command, U32Of(Len(init_pkt)))
       IN  \E o \in CtrlOutcomes(to_bytes(req)) : Exchange(req, o, Goto("WriteInit"))

\* transport.write_data(init_pkt).await?
WriteInit ==
    /\ pc = "WriteInit"
    /\ \E o \in DataOutcomes(init_pkt) : Write(init_pkt, o, Goto("GetCrcInit"))

\* request(transport, &Request::GetCrc).await? and the init packet's verification
GetCrcInit ==
    /\ pc = "GetCrcInit"
    /\ \E o \in CtrlOutcomes(to_bytes(Request_GetCrc)) :
           Exchange(Request_GetCrc, o, VerifyInit(request(o).res.data))

\* request(transport, &Request::Execute).await? of the Command object
ExecuteCommand ==
    /\ pc = "ExecuteCommand"
    /\ \E o \in CtrlOutcomes(to_bytes(Request_Execute)) :
           Exchange(Request_Execute, o, Goto("SelectData"))

\* request(transport, &Request::Select(Object::Data)).await? and what follows it
SelectData ==
    /\ pc = "SelectData"
    /\ \E o \in CtrlOutcomes(to_bytes(Request_Select(Object_Data))) :
           Exchange(Request_Select(Object_Data), o, StartStream(request(o).res.data))

\* request(transport, &Request::Create(Object::Data, chunk.len())).await?
CreateData ==
    /\ pc = "CreateData"
    /\ LET req == Request_Create(Object_Data, U32Of(Len(Chunk)))
       IN  \E o \in CtrlOutcomes(to_bytes(req)) : Exchange(req, o, Goto("WriteShard"))

\* transport.write_data(shard).await?
WriteShard ==
    /\ pc = "WriteShard"
    /\ \E o \in DataOutcomes(Shard) : Write(Shard, o, Goto("GetCrcShard"))

\* request(transport, &Request::GetCrc).await? and the shard's verification
GetCrcShard ==
    /\ pc = "GetCrcShard"
    /\ \E o \in CtrlOutcomes(to_bytes(Request_GetCrc)) :
           Exchange(Request_GetCrc, o, VerifyShard(request(o).res.data))

\* request(transport, &Request::Execute).await? of a Data object
ExecuteData ==
    /\ pc = "ExecuteData"
    /\ \E o \in CtrlOutcomes(to_bytes(Request_Execute)) :
           Exchange(Request_Execute, o, NextChunk)

Next ==
    \/ SetPrn
    \/ CreateCommand
    \/ WriteInit
    \/ GetCrcInit
    \/ ExecuteCommand
    \/ SelectData
    \/ CreateData
    \/ WriteShard
    \/ GetCrcShard
    \/ ExecuteData

Spec == Init /\ [][Next]_vars

(* crc32 on its own: a buffer is cut into consecutive pieces of any lengths *)
(* and crc32 is folded over them, each call continuing from the last value. *)
CrcInit ==
    /\ cbuf \in UNION { [1..n -> CrcBytes] : n \in 0..MaxCrcLen }
    /\ coff = 0
    /\ cacc = Zero32
    /\ cfolds = 0
    /\ DfuIdle
    /\ BleIdle
    /\ RetryIdle

\* crc32(piece, cacc) of the next piece, of n bytes
CrcFold ==
    /\ \E n \in 1..(Len(cbuf) - coff) :
           /\ cacc' = crc32(SubSeq(cbuf, coff + 1, coff + n), cacc)
           /\ coff' = coff + n
    /\ cfolds' = cfolds + 1
    /\ UNCHANGED << cbuf, dfu, ble, rty >>

CrcSpec == CrcInit /\ [][CrcFold]_vars

(* DfuTransportBtleplug: new, then one request on the Control Point, with   *)
(* the device and the notifications of other characteristics interleaved.  *)
\* the characteristics of the device in a mode: the application exposes the
\* Buttonless DFU characteristic, the bootloader the Control Point and Data
Characteristics(m) == IF m = "app" THEN { BTTNLSS } ELSE { CTRL_PT, DATA_PT }

\* the notification the bootloader sends in reply to the Control-Point write
Reply == Ntf(CTRL_PT, << 96, 2, 1 >>)

\* the notifications the Buttonless DFU characteristic may send
ButtonlessReplies == { << 32, 1, 1 >>, << 32, 1, 4 >> }

\* `?` on an Err, or a panic: new, or request, ends
BleFail(r) == bpc' = "Failed" /\ bret' = r

\* a notification reaches the host: queued if the stream exists, else dropped
Deliver(ntf) ==
    notifications' = IF open THEN Append(notifications, ntf) ELSE notifications

Matches_Any(ntf, chr) == TRUE
\* ntf.uuid == chr.uuid
Matches(ntf, chr) == ntf.uuid = chr

BleInit ==
    /\ has_bttnlss \in BOOLEAN
    /\ same_addr \in BOOLEAN
    /\ BleStart
    /\ DfuIdle
    /\ CrcIdle
    /\ RetryIdle

\* find_peripheral(&central, name, addr).await?
new_find_peripheral ==
    /\ bpc = "find_peripheral"
    /\ peripheral' = NAME
    /\ bpc' = "connect"
    /\ UNCHANGED << dfu, crcs, rty, has_bttnlss, same_addr, mode, chars, open, notifications, devst,
                    others, bret, bobs >>

\* peripheral.connect().await?; peripheral.discover_services().await?
new_connect ==
    /\ bpc = "connect"
    /\ \/ chars' = Characteristics(mode) /\ bpc' = "find_bttnlss" /\ bret' = bret
       \/ BleFail(BleErr("connect")) /\ chars' = chars
    /\ UNCHANGED << dfu, crcs, rty, has_bttnlss, same_addr, peripheral, mode, open, notifications, devst,
                    others, bobs >>

\* if let Ok(buttonless) = find_characteristic_by_uuid(&peripheral, BTTNLSS)
new_find_bttnlss ==
    /\ bpc = "find_bttnlss"
    /\ bpc' = IF BTTNLSS \in chars THEN "subscribe_bttnlss" ELSE "find_chars"
    /\ UNCHANGED << dfu, crcs, rty, has_bttnlss, same_addr, peripheral, mode, chars, open, notifications,
                    devst, others, bret, bobs >>

\* peripheral.subscribe(&buttonless); let mut notifications = peripheral.notifications()
new_subscribe_bttnlss ==
    /\ bpc = "subscribe_bttnlss"
    /\ open' = TRUE
    /\ notifications' = << >>
    /\ bpc' = "write_bttnlss"
    /\ UNCHANGED << dfu, crcs, rty, has_bttnlss, same_addr, peripheral, mode, chars, devst, others, bret,
                    bobs >>

\* peripheral.write(&buttonless, &[0x01], WriteType::WithResponse).await?
new_write_bttnlss ==
    /\ bpc = "write_bttnlss"
    /\ devst' = "got"
    /\ bpc' = "next_bttnlss"
    /\ UNCHANGED << dfu, crcs, rty, has_bttnlss, same_addr, peripheral, mode, chars, open, notifications,
                    others, bret, bobs >>

\* the application answers the command on the Buttonless characteristic and
\* restarts into the bootloader
DevButtonless ==
    /\ devst = "got" /\ mode = "app"
    /\ \E v \in ButtonlessReplies : Deliver(Ntf(BTTNLSS, v))
    /\ mode' = "boot"
    /\ devst' = "idle"
    /\ UNCHANGED << dfu, crcs, rty, has_bttnlss, same_addr, bpc, peripheral, chars, open, others, bret,
                    bobs >>

\* let res = timeout(notifications.next()).await?.unwrap();
\* assert_eq!(res.value, [0x20, 0x01, 0x01]);
new_next_bttnlss ==
    /\ bpc = "next_bttnlss"
    /\ IF notifications = << >>
       THEN BleFail(BleErr("Elapsed")) /\ UNCHANGED << notifications, bobs >>
       ELSE /\ notifications' = Tail(notifications)
            /\ IF Head(notifications).value = << 32, 1, 1 >>
               THEN bpc' = "reconnect" /\ bret' = bret
                    /\ bobs' = [bobs EXCEPT !.bttnlss = TRUE]
               ELSE BleFail(BlePanic("assertion failed")) /\ bobs' = bobs
    /\ UNCHANGED << dfu, crcs, rty, has_bttnlss, same_addr, peripheral, mode, chars, open, devst, others >>

\* peripheral.connect().await?; peripheral.discover_services().await? on the
\* peripheral already held; the block's notifications stream is dropped
new_reconnect ==
    /\ bpc = "reconnect"
    /\ \/ /\ mode = "boot" /\ same_addr
          /\ chars' = Characteristics(mode) /\ bpc' = "find_chars" /\ bret' = bret
       \/ BleFail(BleErr("connect")) /\ chars' = chars
    /\ open' = FALSE
    /\ notifications' = << >>
    /\ UNCHANGED << dfu, crcs, rty, has_bttnlss, same_addr, peripheral, mode, devst, others, bobs >>

\* find_characteristic_by_uuid(CTRL_PT)?, (DATA_PT)?; subscribe(&control_point)
new_find_chars ==
    /\ bpc = "find_chars"
    /\ IF { CTRL_PT, DATA_PT } \subseteq chars
       THEN bpc' = "Ready" /\ bret' = bret
       ELSE BleFail(BleErr("characteristic not found"))
    /\ UNCHANGED << dfu, crcs, rty, has_bttnlss, same_addr, peripheral, mode, chars, open, notifications,
                    devst, others, bobs >>

\* request: let mut notifications = self.peripheral.notifications().await.unwrap()
request_notifications ==
    /\ bpc = "Ready"
    /\ open' = TRUE
    /\ notifications' = << >>
    /\ bpc' = "write"
    /\ UNCHANGED << dfu, crcs, rty, has_bttnlss, same_addr, peripheral, mode, chars, devst, others, bret,
                    bobs >>

\* request: self.peripheral.write(chr, bytes, write_type) is issued and reaches
\* the device
request_write ==
    /\ bpc = "write"
    /\ devst' = "got"
    /\ bpc' = "writing"
    /\ UNCHANGED << dfu, crcs, rty, has_bttnlss, same_addr, peripheral, mode, chars, open, notifications,
                    others, bret, bobs >>

\* request: timeout(..write..).await?? returns: written, Elapsed, or an error
request_written ==
    /\ bpc = "writing"
    /\ \/ bpc' = "next" /\ bret' = bret
       \/ BleFail(BleErr("Elapsed"))
       \/ BleFail(BleErr("write"))
    /\ UNCHANGED << dfu, crcs, rty, has_bttnlss, same_addr, peripheral, mode, chars, open, notifications,
                    devst, others, bobs >>

\* the bootloader notifies its response on the Control Point
DevNotify ==
    /\ devst = "got" /\ mode = "boot"
    /\ Deliver(Reply)
    /\ devst' = "replied"
    /\ bobs' = [bobs EXCEPT !.lost = bobs.lost \/ ~open,
                            !.early = bobs.early \/ bpc = "writing"]
    /\ UNCHANGED << dfu, crcs, rty, has_bttnlss, same_addr, bpc, peripheral, mode, chars, open, others,
                    bret >>

\* a notification of another characteristic arrives
OtherNotify ==
    /\ bpc \in { "Ready", "write", "writing", "next" }
    /\ others < MaxOther
    /\ Deliver(Ntf(BTTNLSS, << 96, 2, 1 >>))
    /\ others' = others + 1
    /\ UNCHANGED << dfu, crcs, rty, has_bttnlss, same_addr, bpc, peripheral, mode, chars, open, devst,
                    bret, bobs >>

\* request: let ntf = timeout(notifications.next()).await?.unwrap();
\* if ntf.uuid == chr.uuid { return Ok(ntf.value); }
request_next ==
    /\ bpc = "next"
    /\ IF notifications = << >>
       THEN BleFail(BleErr("Elapsed")) /\ UNCHANGED << notifications, bobs >>
       ELSE /\ notifications' = Tail(notifications)
            /\ IF Matches(Head(notifications), CTRL_PT)
               THEN bpc' = "Returned" /\ bret' = BleOk(Head(notifications))
                    /\ bobs' = bobs
               ELSE bpc' = bpc /\ bret' = bret
                    /\ bobs' = [bobs EXCEPT !.skipped = bobs.skipped + 1]
    /\ UNCHANGED << dfu, crcs, rty, has_bttnlss, same_addr, peripheral, mode, chars, open, devst, others >>

BleNext ==
    \/ new_find_peripheral
    \/ new_connect
    \/ new_find_bttnlss
    \/ new_subscribe_bttnlss
    \/ new_write_bttnlss
    \/ DevButtonless
    \/ new_next_bttnlss
    \/ new_reconnect
    \/ new_find_chars
    \/ request_notifications
    \/ request_write
    \/ request_written
    \/ DevNotify
    \/ OtherNotify
    \/ request_next

BleSpec == BleInit /\ [][BleNext]_vars

(* request over DfuTransportBtleplug::request, for consecutive requests of  *)
(* one session, the device's notifications being delayed but never lost.   *)
\* the Control-Point requests dfu_run makes, in order, for an empty init packet
\* and a firmware of one byte
Session ==
    << Request_SetPrn(Zero32), Request_Create(Object_Command, Zero32), Request_GetCrc,
       Request_Execute, Request_Select(Object_Data), Request_Create(Object_Data, U32Of(1)),
       Request_GetCrc, Request_Execute >>

\* the request being made
Current == r_first + r_done

\* the Success response the bootloader notifies for a request
AnswerTo(bytes) ==
    IF bytes[1] = OpCode_CrcGet THEN CrcReply(Zero32, Zero32)
    ELSE IF bytes[1] = OpCode_ObjectSelect THEN SelectReply(U32Of(1), Zero32, Zero32)
    ELSE << 96, bytes[1], 1 >>

RetryInit ==
    /\ r_first \in 1..Len(Session)
    /\ RetryStart
    /\ DfuIdle
    /\ CrcIdle
    /\ BleIdle

\* request_ctrl returned Err(Elapsed), its stream is dropped; request:
\* `continue`, and after the last attempt Err("No response after multiple tries")
Elapsed ==
    /\ r_open' = FALSE
    /\ r_stream' = << >>
    /\ IF r_retry + 1 < RETRIES
       THEN r_retry' = r_retry + 1 /\ r_pc' = "notifications"
       ELSE r_retry' = r_retry /\ r_pc' = "Failed"

\* request_ctrl: let mut notifications = self.peripheral.notifications().await.unwrap()
request_ctrl_notifications ==
    /\ r_pc = "notifications"
    /\ r_open' = TRUE
    /\ r_stream' = << >>
    /\ r_pc' = "write"
    /\ UNCHANGED << dfu, crcs, ble, r_first, r_done, r_retry, r_owed, r_got, r_unacked >>

\* request_ctrl: timeout(self.peripheral.write(chr, bytes, write_type)).await??
\* the write is acknowledged; or it times out, having reached the device or
\* not; or it fails
request_ctrl_write ==
    /\ r_pc = "write"
    /\ \E st \in { "ok", "late", "lost", "error" } :
           /\ r_owed' = IF st \in { "ok", "late" }
                        THEN Append(r_owed, [rq |-> Current,
                                             value |-> AnswerTo(to_bytes(Session[Current]))])
                        ELSE r_owed
           /\ r_unacked' = (r_unacked \/ st \in { "late", "lost" })
           /\ CASE st = "ok" -> r_pc' = "next" /\ UNCHANGED << r_open, r_stream, r_retry >>
                [] st = "error" ->
                       /\ r_pc' = "Failed" /\ r_open' = FALSE /\ r_stream' = << >>
                       /\ r_retry' = r_retry
                [] OTHER -> Elapsed
    /\ UNCHANGED << dfu, crcs, ble, r_first, r_done, r_got >>

\* request_ctrl: let ntf = timeout(notifications.next()).await?.unwrap();
\* if ntf.uuid == chr.uuid { return Ok(ntf.value); }
\* request: Response::try_from(&r)?, failed, return Ok(res); the caller then
\* makes the session's next request
request_ctrl_next ==
    /\ r_pc = "next"
    /\ IF r_stream = << >>
       THEN Elapsed /\ UNCHANGED << r_done, r_got >>
       ELSE LET ntf == Head(r_stream)
                res == try_from(ntf.value)
            IN  IF ~Matches(ntf, CTRL_PT)
                THEN /\ r_stream' = Tail(r_stream)
                     /\ UNCHANGED << r_open, r_pc, r_retry, r_done, r_got >>
                ELSE /\ r_open' = FALSE
                     /\ r_stream' = << >>
                     /\ r_retry' = 0
                     /\ IF res.st # "Ok" \/ failed(res)
                        THEN r_pc' = "Failed" /\ UNCHANGED << r_done, r_got >>
                        ELSE /\ r_got' = Append(r_got, [rq |-> ntf.rq, value |-> ntf.value])
                             /\ r_done' = r_done + 1
                             /\ r_pc' = IF r_done + 1 < MaxReq /\ Current < Len(Session)
                                        THEN "notifications" ELSE "Done"
    /\ UNCHANGED << dfu, crcs, ble, r_first, r_owed, r_unacked >>

\* the bootloader notifies, late or not, the response to the oldest write it
\* has not answered: queued if a stream exists, else dropped
LateNotify ==
    /\ r_owed # << >>
    /\ r_owed' = Tail(r_owed)
    /\ r_stream' = IF r_open
                   THEN Append(r_stream, [uuid |-> CTRL_PT, value |-> Head(r_owed).value,
                                          rq |-> Head(r_owed).rq])
                   ELSE r_stream
    /\ UNCHANGED << dfu, crcs, ble, r_first, r_done, r_retry, r_pc, r_open, r_got, r_unacked >>

RetryNext ==
    \/ request_ctrl_notifications
    \/ request_ctrl_write
    \/ request_ctrl_next
    \/ LateNotify

RetrySpec == RetryInit /\ [][RetryNext]_vars

\* The session against a truthful device.  dfu_run is one sequential task that
\* main awaits, and every transport operation returns (each is bounded by the
\* transport's 500 ms timeout), so a step that can be taken is taken.
TruthfulInit == Init /\ device = "truthful"
LiveSpec == TruthfulInit /\ [][Next]_vars /\ WF_vars(Next)

(******************************* claims ************************************)
Honest == ~lied /\ maxconsec = 0
Finished == pc = "Done"
Unresponsive == Err("No response after multiple tries")

\* C1: against a device that answers every request truthfully with Success, the
\* transport operations dfu_run issues are, in order and with no other between
\* them, those of the announced sequence, and when dfu_run ends (the announced
\* chunk size being positive) it has issued all of them and returns Ok.
C1_AnnouncedSequence ==
    Honest => /\ conform
              /\ (Finished /\ dev_max_size > 0) => (result = Ok /\ idx = Len(Announced))

\* a finished truthful session of two chunks, the first of two shards
C1_Witness ==
    /\ Honest /\ Finished /\ result = Ok
    /\ Len(fw_pkt) = 3 /\ mtu = 1 /\ dev_max_size = 2 /\ Len(init_pkt) = 2
    /\ idx = 16

\* C2: against a truthful device announcing a positive chunk size, for every
\* init packet, firmware and mtu of the model, the session eventually ends,
\* and it ends with Ok.
C2_Terminates ==
    (device = "truthful" /\ dev_max_size > 0) => <>(Finished /\ result = Ok)

\* a finished session whose firmware is one byte longer than a chunk and than a shard
C2_Witness ==
    /\ device = "truthful" /\ Finished /\ result = Ok
    /\ mtu = 2 /\ dev_max_size = 2 /\ Len(fw_pkt) = 3

\* the result codes of the protocol's table other than Success
TableFailCodes == {2, 3, 4, 5, 7, 8, 10, 11}

\* the last request was answered 60 <its opcode> <a non-Success code of the table>
AnsweredFailure ==
    /\ last.op = "ctrl" /\ last.st = "ok" /\ Len(last.resp) >= 3
    /\ last.resp[1] = 96 /\ last.resp[2] = last.bytes[1]
    /\ last.resp[3] \in TableFailCodes

\* C3: when a request is answered with a well-formed response whose result code
\* is not Success, dfu_run has ended with the error that carries that code (the
\* request is not sent again), and no transport operation is issued after
\* dfu_run ended.
C3_ProtocolError ==
    /\ AnsweredFailure => (Finished /\ result = Res("Err", "Response", last.resp[3]))
    /\ ~after_end

\* the Execute of the second Data object answered OperationNotPermitted
C3_Witness ==
    /\ AnsweredFailure /\ last.bytes = WireExecute /\ execs = 3 /\ last.resp[3] = 8

\* C4: request calls request_ctrl at most 3 times for one request; when the
\* third call in a row times out dfu_run has ended with "No response after
\* multiple tries", and no transport operation is issued after dfu_run ended.
C4_ThreeAttempts ==
    /\ consec <= 3
    /\ consec = 3 => (Finished /\ result = Unresponsive)
    /\ ~after_end /\ (Finished => retry = 0)

\* the first SetPrn timed out three times: the only three operations issued
C4_Witness ==
    /\ consec = 3 /\ idx = 1 /\ last.bytes = WireSetPrn(0) /\ result = Unresponsive

\* C5: when the only deviations of the device are timeouts, every call after a
\* timeout repeats the bytes of the call that timed out, the other operations
\* are those of the announced sequence in order, and a session in which no
\* request timed out three times in a row ends with Ok, the whole announced
\* sequence issued.
C5_RetryTransparent ==
    ~lied => /\ conform
             /\ (Finished /\ maxconsec < 3 /\ dev_max_size > 0)
                    => (result = Ok /\ idx = Len(Announced))

\* a session ended Ok in which a shard's GetCrc timed out twice, then answered
C5_Witness ==
    /\ ~lied /\ maxconsec = 2 /\ Finished /\ result = Ok /\ Len(fw_pkt) = 2

\* C6: when the checksum of the GetCrc reply after a shard differs from
\* crc32(shard, crc), dfu_run ends at once with an error result.
C6_IntegrityErrorResult ==
    (last.stream /\ ~last.crc_ok) => (Finished /\ result.tag = "Err")

\* C7: when the offset of the GetCrc reply after a shard differs from the number
\* of firmware bytes written so far, the session fails.
C7_OffsetVerified ==
    (last.stream /\ ~last.off_ok) => (Finished /\ result.tag \in {"Err", "Panic"})

\* the last request was Select(Data), answered Success with a non-zero offset
\* or a non-zero checksum
ResumeAnswered ==
    /\ last.op = "ctrl" /\ last.bytes = WireSelect(2) /\ last.st = "ok"
    /\ Len(last.resp) = 15 /\ SubSeq(last.resp, 1, 3) = << 96, 6, 1 >>
    /\ SubSeq(last.resp, 8, 15) # << 0, 0, 0, 0, 0, 0, 0, 0 >>

\* C8: when the Select(Data) response reports a non-zero offset or checksum,
\* dfu_run ends with an error result (and nothing is issued afterwards).
C8_ResumeErrorResult ==
    ResumeAnswered => (Finished /\ result.tag = "Err")

\* the last operation was a Create(Data, _) request
CreateDataIssued ==
    last.op = "ctrl" /\ Len(last.bytes) = 6 /\ last.bytes[1] = 1 /\ last.bytes[2] = 2

\* C9: a Create(Data, _) request is issued only after the init packet was
\* written, a GetCrc reply matched |init| and crc32(init, 0), and the Execute
\* that followed was answered with the result code Success; and once a GetCrc reply for the init
\* packet mismatched in offset or checksum, no Execute is ever sent.
C9_InitBeforeData ==
    /\ CreateDataIssued => (init_written /\ init_verified /\ init_executed)
    /\ init_mismatch => execs = 0

\* a Create(Data) issued in a session that saw timeouts
C9_Witness ==
    /\ CreateDataIssued /\ maxconsec > 0 /\ init_executed /\ last.st = "ok"

\* C10: every write_data call carries at least 1 and at most mtu bytes.
C10_WriteWithinMtu ==
    last.op = "data" => (1 <= Len(last.bytes) /\ Len(last.bytes) <= mtu)

\* C11: crc32 folded over the consecutive pieces of a buffer, starting from 0
\* and each call continuing from the value of the call before, equals crc32 of
\* the bytes covered so far with initial value 0, whatever the pieces' lengths;
\* so crc32(b1 ++ b2, 0) = crc32(b2, crc32(b1, 0)).
C11_CrcContinuation ==
    cacc = crc32(SubSeq(cbuf, 1, coff), Zero32)

\* a three-byte buffer folded as a piece of two bytes and a piece of one
C11_Witness ==
    cbuf = << 1, 255, 0 >> /\ coff = 3 /\ cfolds = 2

\* C12: no firmware shard and no Execute of a Data object is sent right after
\* a GetCrc reply whose checksum was not compared with crc32(shard, crc) and
\* found equal.
C12_NoSkippedVerification ==
    ~skipped

\* the length of the chunk that starts at chunk_off, by the partition rule
ChunkLen == Min(max_size, Len(fw_pkt) - chunk_off)

\* the last operation was a write_data of firmware bytes
ShardWritten == last.op = "data" /\ execs >= 1

\* the firmware bytes handed to write_data so far
Streamed ==
    IF pc = "GetCrcShard" THEN chunk_off + shard_off + Min(mtu, ChunkLen - shard_off)
    ELSE IF pc = "ExecuteData" THEN chunk_off + ChunkLen
    ELSE chunk_off + shard_off

\* C13: every Create(Data, len) starts at a multiple of max_size and announces
\* max_size bytes, or the 1..max_size bytes that are left; every shard starts at
\* a multiple of mtu inside its chunk and carries mtu bytes, or the 1..mtu bytes
\* left of the chunk; and the shards written, in order, are the firmware: the
\* Data bytes the device has received are the firmware's prefix, and the whole
\* firmware when dfu_run returns Ok.
C13_Partition ==
    /\ CreateDataIssued =>
           /\ chunk_off % max_size = 0 /\ chunk_off < Len(fw_pkt)
           /\ last.bytes = WireCreate(2, ChunkLen)
    /\ ShardWritten =>
           /\ shard_off % mtu = 0 /\ shard_off < ChunkLen
           /\ Len(last.bytes) = Min(mtu, ChunkLen - shard_off)
    /\ pc \in {"CreateData", "WriteShard", "GetCrcShard", "ExecuteData"} =>
           dev.data = SubSeq(fw_pkt, 1, Streamed)
    /\ (Finished /\ result = Ok) => dev.data = fw_pkt

\* a session ended Ok: a chunk of two shards, the second one short
C13_Witness ==
    /\ Finished /\ result = Ok /\ dev.data = fw_pkt
    /\ Len(fw_pkt) = 3 /\ max_size = 3 /\ mtu = 2 /\ Len(dev.lastw) = 1

\* the firmware bytes of the shards up to the one just verified
Verified == IF pc = "ExecuteData" THEN chunk_off + ChunkLen ELSE chunk_off + shard_off

\* C14: right after a shard's GetCrc reply was compared and found equal, the
\* host's crc is the CRC32, from 0, of the firmware up to the end of that shard.
C14_AccumulatorIsPrefixCrc ==
    (last.stream /\ last.crc_ok) => crc = crc32(SubSeq(fw_pkt, 1, Verified), Zero32)

\* the result codes of the protocol's table
TableCodes == {1} \cup TableFailCodes

\* a response that is malformed: too short, a wrong header, an opcode or a
\* result code outside the tables, or a Success payload too short for its shape
Malformed(b) ==
    \/ Len(b) < 3
    \/ b[1] # 96
    \/ b[2] \notin OpCode
    \/ b[3] \notin TableCodes
    \/ b[3] = 1 /\ b[2] = 3 /\ Len(b) < 11
    \/ b[3] = 1 /\ b[2] = 6 /\ Len(b) < 15

\* C15: when request_ctrl returned a malformed response, dfu_run has ended with
\* an error value that is not a protocol error (decoding neither aborted nor
\* yielded a Response), and the request was not sent again.
C15_MalformedIsError ==
    (last.op = "ctrl" /\ last.st = "ok" /\ Malformed(last.resp))
        => (Finished /\ result.tag = "Err" /\ result.what # "Response")

\* C16: when write_data failed or timed out, or request_ctrl failed with an
\* error other than a timeout, dfu_run has ended with that error (no second
\* attempt), and no transport operation is issued after dfu_run ended.
C16_OnlyTimeoutRetried ==
    /\ (last.op = "data" /\ last.st = "timeout") => (Finished /\ result = Err("Elapsed"))
    /\ last.st = "error" => (Finished /\ result = Err("transport"))
    /\ ~after_end

\* the write of the second firmware shard timed out
C16_Witness ==
    /\ ShardWritten /\ last.st = "timeout" /\ Finished /\ chunk_off + shard_off > 0

\* C17: a progress event is emitted only by a step in which a shard's GetCrc
\* reply was compared and found equal.
C17_ProgressAfterVerified ==
    emitted => (last.stream /\ last.crc_ok)

\* the last request was answered with the header, another opcode than the
\* request's, and the result code Success
ForeignSuccess ==
    /\ last.op = "ctrl" /\ last.st = "ok" /\ Len(last.resp) >= 3
    /\ last.resp[1] = 96 /\ last.resp[2] \in OpCode /\ last.resp[3] = 1
    /\ last.resp[2] # last.bytes[1]

\* C20: a Success response that echoes another opcode than the request's is
\* rejected: dfu_run ends with an error.
C20_EchoChecked ==
    ForeignSuccess => (Finished /\ result.tag = "Err")

\* C18: the response notification is never sent while request has no stream;
\* while request waits, a response that was sent is in its stream; and what
\* request returns is the Control Point's notification, never another
\* characteristic's.
C18_ReplyNotLost ==
    /\ ~bobs.lost
    /\ (devst = "replied" /\ bpc \in { "writing", "next" })
           => \E i \in 1..Len(notifications) : notifications[i] = Reply
    /\ bpc = "Returned"
           => (bret.tag = "Ok" /\ bret.uuid = CTRL_PT /\ bret.value = Reply.value
               /\ devst = "replied")

\* the response was notified before the write returned, behind two
\* notifications of another characteristic, and request returned it
C18_Witness ==
    bpc = "Returned" /\ bobs.early /\ bobs.skipped = 2 /\ bret.value = Reply.value

\* C19: after the Buttonless DFU command was answered 20 01 01, the transport
\* is built on a peripheral discovered under the name DfuTarg.
C19_RediscoversDfuTarg ==
    (bpc = "Ready" /\ bobs.bttnlss) => peripheral = DFU_TARG

\* the number of chunks of the firmware: ceil(|firmware| / max_size)
Chunks == (Len(fw_pkt) + max_size - 1) \div max_size

\* C22: when dfu_run returns Ok, every firmware byte was written, no shard's
\* verification was skipped, the host's crc (the checksum of the last reply
\* compared) is CRC32(firmware, 0), and 1 + the number of chunks Execute
\* requests were answered with Success.
C22_OkMeansVerified ==
    (Finished /\ result = Ok) =>
        /\ dev.data = fw_pkt
        /\ ~skipped
        /\ crc = crc32(fw_pkt, Zero32)
        /\ exec_ok = 1 + Chunks

\* C21: when every Control-Point write is acknowledged and the notifications
\* are only delayed, never lost, every response a request returns with is the
\* one the device sent in reply to that request: no request returns with the
\* late response to an earlier request, whatever was retried before it.
C21_NoLateReplyConsumed ==
    ~r_unacked => \A i \in 1..Len(r_got) : r_got[i].rq = r_first + i - 1

====
